---- MODULE Spec2Model ----
(***************************************************************************)
(* findIssues (src/src/cli.ts, lines 88-296): the classification engine of *)
(* knip.  One run partitions the project's files, collects unresolved      *)
(* dependencies, classifies the exported declarations of every traversed   *)
(* file and finally records the unused dependencies.                       *)
(*                                                                         *)
(* The source model (ts-morph), the dependency analyzer and the project    *)
(* loader are collaborators: what they answer is drawn from bounded sets.  *)
(***************************************************************************)
EXTENDS Integers, Sequences, FiniteSets, TLC

(***************************************************************************)
(* Bounds of the model.                                                    *)
(***************************************************************************)
NumFiles == 2
MaxBindings == 2

(***************************************************************************)
(* Values.                                                                 *)
(***************************************************************************)
Undefined == "undefined"

FileNames == <<"a.ts", "b.ts", "c.ts", "d.ts">>
FileDirs == <<"w", "x", "w", "x">>
WorkingDir == <<"/", "w">>

\* The absolute path of the i-th file of the project: "/w/a.ts", "/x/b.ts", ...
FilePath(i) == <<"/", FileDirs[i], FileNames[i]>>

AllFiles == {FilePath(i) : i \in 1..NumFiles}

AllFilesSeq == [i \in 1..NumFiles |-> FilePath(i)]

\* The lists of files the project loader can supply, in the loader's order.
FileLists == {SelectSeq(AllFilesSeq, LAMBDA f : f \in S) : S \in SUBSET AllFiles}

SymbolIssueTypes == {"unresolved", "exports", "types", "nsExports", "nsTypes", "duplicates"}
ProjectIssueTypes == {"dependencies", "devDependencies"}
ReportKeys == {"files", "dependencies", "unlisted", "exports", "types", "nsExports", "nsTypes", "duplicates"}

Range(s) == {s[i] : i \in 1..Len(s)}

Min(a, b) == IF a < b THEN a ELSE b

(***************************************************************************)
(* path.relative(from, to) on absolute POSIX paths, a path being the       *)
(* sequence of its segments after the root "/".                            *)
(***************************************************************************)
CommonPrefixLen(a, b) ==
  Cardinality({k \in 1..Min(Len(a), Len(b)) : \A j \in 1..k : a[j] = b[j]})

Relative(from, to) ==
  LET k == CommonPrefixLen(from, to)
  IN [i \in 1..(Len(from) - k) |-> ".."] \o SubSeq(to, k + 1, Len(to))

(***************************************************************************)
(* partitionSourceFiles(superset, candidateSubset): the members of the     *)
(* subset that are in the superset, and those that are not, in the         *)
(* subset's order.                                                         *)
(***************************************************************************)
PartitionSourceFiles(superset, candidateSubset) ==
  << SelectSeq(candidateSubset, LAMBDA f : f \in Range(superset)),
     SelectSeq(candidateSubset, LAMBDA f : f \notin Range(superset)) >>

(***************************************************************************)
(* The state of one run.                                                   *)
(***************************************************************************)
VARIABLES
  configuration,                \* the Configuration findIssues is given
  analyzer,                     \* what getDependencyAnalyzer(configuration) answers
  pc,                           \* where the run is
  usedProductionFiles,
  unreferencedProductionFiles,
  usedEntryFiles,
  usedNonEntryFiles,
  issues,                       \* the issue store
  counters,                     \* the counters, `processed' included
  lines,                        \* what lineRewriter shows
  twin,                         \* the same run with isShowProgress negated
  fileIdx,                      \* position of the forEach over files
  sourceFile,                   \* the file being traversed, as the source model gives it
  declIdx,                      \* position of the forEach over its declarations
  nodes,                        \* the declarations of the file already looked at
  last                          \* what the last step did

vars ==
  << configuration, analyzer, pc, usedProductionFiles, unreferencedProductionFiles,
     usedEntryFiles, usedNonEntryFiles, issues, counters, lines, twin, fileIdx,
     sourceFile, declIdx, nodes, last >>

(***************************************************************************)
(* The issue store: a symbol-issue category is an object                   *)
(* key -> symbol -> issue, a project-issue category a Set of symbols.      *)
(***************************************************************************)
EmptyObject == << >>

ObjectSet(store, key, symbol, issue) ==
  LET inner == IF key \in DOMAIN store THEN store[key] ELSE EmptyObject
      added == [s \in (DOMAIN inner) \cup {symbol} |->
                  IF s = symbol THEN issue ELSE inner[s]]
  IN [k \in (DOMAIN store) \cup {key} |-> IF k = key THEN added ELSE store[k]]

\* issues[issueType][filePath]?.[identifierText], as a condition
HasIssue(store, filePath, identifierText) ==
  /\ filePath \in DOMAIN store
  /\ identifierText \in DOMAIN store[filePath]

\* The (key, symbol) pairs a symbol-issue category holds.
Entries(store) ==
  UNION {{<<k, s>> : s \in DOMAIN store[k]} : k \in DOMAIN store}

InitialIssues(unreferenced) ==
  [ files |-> Range(unreferenced),
    dependencies |-> {},
    devDependencies |-> {},
    unresolved |-> EmptyObject,
    exports |-> EmptyObject,
    types |-> EmptyObject,
    nsExports |-> EmptyObject,
    nsTypes |-> EmptyObject,
    duplicates |-> EmptyObject ]

InitialCounters(store) ==
  [ files |-> Cardinality(store.files),
    dependencies |-> Cardinality(store.dependencies),
    devDependencies |-> Cardinality(store.dependencies),
    unresolved |-> 0,
    exports |-> 0,
    types |-> 0,
    nsExports |-> 0,
    nsTypes |-> 0,
    duplicates |-> 0,
    processed |-> Cardinality(store.files) ]

(***************************************************************************)
(* The progress display.  A run's results are the record                   *)
(* [issues, counters, lines]; `show' is isShowProgress.                    *)
(***************************************************************************)
GetLine(value, text) == <<value, text>>

\* path.resolve of a path: '' is the current directory
Resolve(p) == IF p = << >> THEN configuration.cwd ELSE p

Percentage(counter, total) ==
  IF total = 0
    THEN (IF counter = 0 THEN "NaN" ELSE "Infinity")
    ELSE (counter * 100) \div total

\* A display that counts what it shows as processed.
UpdateProcessingOutputCounting(s, show, item) ==
  IF ~show THEN s
  ELSE [s EXCEPT !.counters.processed = @ + 1,
                 !.lines = <<GetLine(s.counters.processed + 1, "processed")>>]

UpdateProcessingOutput(s, show, item) ==
  IF ~show THEN s
  ELSE
    LET report == configuration.report
        counter == s.counters.processed
        total == Len(configuration.projectFiles)
        messages ==
          << GetLine(Percentage(counter, total), <<"of files processed", counter, total>>) >>
          \o (IF report.files
                THEN <<GetLine(Len(unreferencedProductionFiles), "unused files")>> ELSE << >>)
          \o (IF report.unlisted
                THEN <<GetLine(s.counters.unresolved, "unlisted dependencies")>> ELSE << >>)
          \o (IF report.exports
                THEN <<GetLine(s.counters.exports, "unused exports")>> ELSE << >>)
          \o (IF report.nsExports
                THEN <<GetLine(s.counters.nsExports, "unused exports in namespace")>> ELSE << >>)
          \o (IF report.types
                THEN <<GetLine(s.counters.types, "unused types")>> ELSE << >>)
          \o (IF report.nsTypes
                THEN <<GetLine(s.counters.nsTypes, "unused types in namespace")>> ELSE << >>)
          \o (IF report.duplicates
                THEN <<GetLine(s.counters.duplicates, "duplicate exports")>> ELSE << >>)
          \o (IF counter < total
                THEN << <<"">>,
                        <<"Processing", Relative(configuration.workingDir, Resolve(item.filePath))>> >>
                ELSE << >>)
    IN [s EXCEPT !.lines = messages]

AddSymbolIssue(s, show, issueType, issue) ==
  LET key == Relative(configuration.workingDir, Resolve(issue.filePath))
      stored == [s EXCEPT !.issues[issueType] = ObjectSet(@, key, issue.symbol, issue),
                          !.counters[issueType] = @ + 1]
  IN UpdateProcessingOutput(stored, show, issue)

\* Lines 160-166 without the test of the Set
AddProjectIssueCounting(s, show, issueType, issue) ==
  UpdateProcessingOutput([s EXCEPT !.issues[issueType] = @ \cup {issue.symbol},
                                   !.counters[issueType] = @ + 1],
                         show, issue)

AddProjectIssue(s, show, issueType, issue) ==
  LET stored == IF issue.symbol \notin s.issues[issueType]
                  THEN [s EXCEPT !.issues[issueType] = @ \cup {issue.symbol},
                                 !.counters[issueType] = @ + 1]
                  ELSE s
  IN UpdateProcessingOutput(stored, show, issue)

RECURSIVE AddSymbolIssues(_, _, _, _)
\* list.forEach(issue => addSymbolIssue(issueType, issue))
AddSymbolIssues(s, show, issueType, list) ==
  IF list = << >> THEN s
  ELSE AddSymbolIssues(AddSymbolIssue(s, show, issueType, Head(list)), show, issueType, Tail(list))

RECURSIVE AddProjectIssues(_, _, _, _)
\* list.forEach(symbol => addProjectIssue(issueType, { filePath: '', symbol }))
AddProjectIssues(s, show, issueType, list) ==
  IF list = << >> THEN s
  ELSE AddProjectIssues(
         AddProjectIssue(s, show, issueType, [filePath |-> << >>, symbol |-> Head(list)]),
         show, issueType, Tail(list))

(***************************************************************************)
(* The dependency analyzer: getUnresolvedDependencies(sourceFile) gives    *)
(* one issue per unresolved import of the file.                            *)
(***************************************************************************)
UnresolvedLists == {<< >>, <<"p">>, <<"p", "q">>}
DependencyLists == {<< >>, <<"lodash", "lodash">>, <<"lodash", "react">>}

GetUnresolvedDependencies(filePath) ==
  [i \in 1..Len(analyzer.unresolved[filePath]) |->
     [filePath |-> filePath, symbol |-> analyzer.unresolved[filePath][i]]]

(***************************************************************************)
(* The source model.  sourceFile.getExportedDeclarations() is a Map from   *)
(* export name to the declarations bound to it; a declaration is a node    *)
(* of the file, and the same node can be bound to several names.           *)
(***************************************************************************)
ExportNames == <<"foo", "bar", "baz", "qux", "quux">>
NodeIds == 1..MaxBindings
DeclLists ==
  {<<n>> : n \in NodeIds} \cup {<<p[1], p[2]>> : p \in {q \in NodeIds \X NodeIds : q[1] < q[2]}}

RECURSIVE Flat(_)
\* [...exportDeclarations.values()].flat()
Flat(exportDeclarations) ==
  IF exportDeclarations = << >> THEN << >>
  ELSE Head(exportDeclarations).declarations \o Flat(Tail(exportDeclarations))

\* Nodes are numbered in the order the Map first shows them.
InMapOrder(list) ==
  \A p \in 1..Len(list) :
    \/ list[p] = 1
    \/ \E q \in 1..(p - 1) : list[q] = list[p] \/ list[q] = list[p] - 1

AsMap(e) == [i \in 1..Len(e) |-> [name |-> ExportNames[i], declarations |-> e[i]]]

\* What getExportedDeclarations() can answer for a file: at most MaxBindings
\* bindings of a name to a declaration.
ExportMaps ==
  {AsMap(e) : e \in {x \in UNION {[1..k -> DeclLists] : k \in 0..MaxBindings} :
                       /\ Len(Flat(AsMap(x))) <= MaxBindings
                       /\ InMapOrder(Flat(AsMap(x)))}}

\* findDuplicateExportedNames(sourceFile): the groups of two or more export
\* names bound to the same declaration, each in the Map's order.
SameDeclaration(a, b) == Head(a.declarations) = Head(b.declarations)

NamesOf(entries) == [i \in 1..Len(entries) |-> entries[i].name]

FindDuplicateExportedNames(exportDeclarations) ==
  LET IsFirst(x) ==
        \A i \in 1..Len(exportDeclarations) :
          (exportDeclarations[i] = x) =>
            \A j \in 1..(i - 1) : ~SameDeclaration(exportDeclarations[j], x)
      Group(x) == SelectSeq(exportDeclarations, LAMBDA y : SameDeclaration(x, y))
      leaders == SelectSeq(exportDeclarations, LAMBDA x : IsFirst(x) /\ Len(Group(x)) >= 2)
  IN [i \in 1..Len(leaders) |-> NamesOf(Group(leaders[i]))]

RECURSIVE Join(_, _)
\* symbols.join(separator)
Join(symbols, separator) ==
  IF symbols = << >> THEN ""
  ELSE IF Len(symbols) = 1 THEN Head(symbols)
  ELSE Head(symbols) \o separator \o Join(Tail(symbols), separator)

(***************************************************************************)
(* Lines 224-242: the identifier of a declaration, by its syntax kind;     *)
(* child is the text of the Identifier the kind's lookup finds in the      *)
(* declaration, if there is one.  The two lookups ...OrThrow throw when    *)
(* there is none.                                                          *)
(***************************************************************************)
NamedKinds ==
  {"FunctionDeclaration", "ClassDeclaration", "TypeAliasDeclaration",
   "InterfaceDeclaration", "EnumDeclaration"}
Kinds == {"Identifier", "ArrowFunction", "PropertyAccessExpression", "Other"} \cup NamedKinds
IdentifierTexts == {"foo", "bar"}
Throws == "throws"

ExtractIdentifier(kind, child) ==
  IF kind = "Identifier" THEN child
  ELSE IF kind = "ArrowFunction" THEN Undefined
  ELSE IF kind \in NamedKinds
    THEN (IF child = Undefined THEN Throws ELSE child)
  ELSE IF kind = "PropertyAccessExpression"
    THEN (IF child = Undefined THEN Throws ELSE child)
  ELSE child

\* A declaration of kind Identifier is its own identifier.
SyntaxNodes ==
  {n \in Kinds \X (IdentifierTexts \cup {Undefined}) :
     n[1] = "Identifier" => n[2] # Undefined}

(***************************************************************************)
(* A declaration, as the source model answers about it:                    *)
(*   type        getType(declaration)                                      *)
(*   public      ts.getJSDocPublicTag(declaration.compilerNode) is there   *)
(*   identifier  what lines 224-242 extract from its syntax node           *)
(*   refs        identifier.findReferences(): per referenced symbol, the   *)
(*               file names of its references                              *)
(***************************************************************************)
Types == {Undefined, "type", "interface"}

ReferenceLists(filePath) ==
  LET other == CHOOSE f \in {FilePath(i) : i \in 1..(NumFiles + 1)} : f # filePath
  IN {<< >>, << <<filePath>> >>, << <<other>> >>, << <<filePath, other>> >>}

Declarations(filePath) ==
  [type : Types, public : BOOLEAN,
   identifier : {ExtractIdentifier(n[1], n[2]) : n \in SyntaxNodes},
   refs : ReferenceLists(filePath)]

\* Lines 217-220
IsFiltered(report, type) ==
  /\ ~report.nsExports /\ ~report.nsTypes
  /\ \/ ~report.types /\ type # Undefined
     \/ ~report.exports /\ type = Undefined

\* Lines 247-250
IsKnownIssue(store, report, filePath, identifierText) ==
  \/ report.exports /\ HasIssue(store.exports, filePath, identifierText)
  \/ report.types /\ HasIssue(store.types, filePath, identifierText)
  \/ report.nsExports /\ HasIssue(store.nsExports, filePath, identifierText)
  \/ report.nsTypes /\ HasIssue(store.nsTypes, filePath, identifierText)

\* Line 257
RefFiles(refs) == UNION {Range(refs[i]) : i \in 1..Len(refs)}

\* Line 259 without the test of the size
IsReferencedBySelf(refFiles, filePath) ==
  filePath \in refFiles

\* Line 259
IsReferencedOnlyBySelf(refFiles, filePath) ==
  Cardinality(refFiles) = 1 /\ filePath \in refFiles

\* Line 255 with the namespace categories
NoReferencesIssueTypeNamespace(type) ==
  IF type # Undefined THEN "nsTypes" ELSE "nsExports"

\* Line 255: the category of an identifier without references
NoReferencesIssueType(type) == "exports"

\* Lines 265-275 without the test of the namespace nodes
SelfReferencedIssueTypeNoNamespace(namespaceNodes, type) ==
  IF type # Undefined THEN "types" ELSE "exports"

\* Lines 265-275: the category of an identifier referenced only by its own file
SelfReferencedIssueType(namespaceNodes, type) ==
  IF namespaceNodes > 0
    THEN (IF type # Undefined THEN "nsTypes" ELSE "nsExports")
    ELSE (IF type # Undefined THEN "types" ELSE "exports")

\* Lines 215-276 as a decision: what happens to one declaration.
Outcome(s, filePath, namespaceNodes, declaration) ==
  LET report == configuration.report
      identifier == declaration.identifier
  IN IF IsFiltered(report, declaration.type) THEN "filtered"
     ELSE IF configuration.jsDocOptions.isReadPublicTag /\ declaration.public THEN "public"
     ELSE IF identifier = Throws THEN "threw"
     ELSE IF identifier = Undefined THEN "noIdentifier"
     ELSE IF IsKnownIssue(s.issues, report, filePath, identifier) THEN "known"
     ELSE IF Len(declaration.refs) = 0 THEN "noReferences"
     ELSE IF ~IsReferencedOnlyBySelf(RefFiles(declaration.refs), filePath) THEN "used"
     ELSE SelfReferencedIssueType(namespaceNodes, declaration.type)

SymbolIssue(filePath, symbol, type) ==
  IF type # Undefined
    THEN [filePath |-> filePath, symbol |-> symbol, symbolType |-> type]
    ELSE [filePath |-> filePath, symbol |-> symbol]

\* Lines 215-276 as an effect on the results.
ClassifyDeclaration(s, show, filePath, namespaceNodes, declaration) ==
  LET outcome == Outcome(s, filePath, namespaceNodes, declaration)
      identifierText == declaration.identifier
  IN IF outcome = "noReferences"
       THEN AddSymbolIssue(s, show, NoReferencesIssueType(declaration.type),
                           [filePath |-> filePath, symbol |-> identifierText])
     ELSE IF outcome \in {"nsTypes", "types"}
       THEN AddSymbolIssue(s, show, outcome,
                           SymbolIssue(filePath, identifierText, declaration.type))
     ELSE IF outcome \in {"nsExports", "exports"}
       THEN AddSymbolIssue(s, show, outcome,
                           [filePath |-> filePath, symbol |-> identifierText])
     ELSE s

(***************************************************************************)
(* The steps of findIssues on the results s = [issues, counters, lines].   *)
(***************************************************************************)
Results == [issues |-> issues, counters |-> counters, lines |-> lines]

DependenciesRequested == configuration.report.dependencies \/ configuration.report.unlisted

SymbolsRequested ==
  \/ configuration.report.exports
  \/ configuration.report.types
  \/ configuration.report.nsExports
  \/ configuration.report.nsTypes

\* Lines 179-187
TraversalRequested ==
  DependenciesRequested \/ SymbolsRequested \/ configuration.report.duplicates

\* Line 96 with the arguments swapped
FirstPartitionSwapped(projectFiles, productionFiles) ==
  PartitionSourceFiles(productionFiles, projectFiles)

\* Line 96
FirstPartition(projectFiles, productionFiles) ==
  PartitionSourceFiles(projectFiles, productionFiles)

\* Line 97
SecondPartition(used, entryFiles) ==
  PartitionSourceFiles(used, entryFiles)

\* Lines 172-174: one entry file
CollectFile(s, show, filePath) ==
  AddSymbolIssues([s EXCEPT !.counters.processed = @ + 1], show, "unresolved",
                  GetUnresolvedDependencies(filePath))

DuplicateIssues(filePath, groups) ==
  [i \in 1..Len(groups) |->
     [filePath |-> filePath, symbol |-> Join(groups[i], "|"), symbols |-> groups[i]]]

\* Lines 190-207: a non-entry file, up to its declarations
OpenFile(s, show, filePath, exportDeclarations) ==
  LET counted == [s EXCEPT !.counters.processed = @ + 1]
      collected ==
        IF DependenciesRequested
          THEN AddSymbolIssues(counted, show, "unresolved", GetUnresolvedDependencies(filePath))
          ELSE counted
  IN IF configuration.report.duplicates
       THEN AddSymbolIssues(collected, show, "duplicates",
              DuplicateIssues(filePath, FindDuplicateExportedNames(exportDeclarations)))
       ELSE collected

\* Lines 210-211 with size === 0
IsNoExport(exportDeclarations) ==
  Cardinality(Range(Flat(exportDeclarations))) = 0

\* Lines 210-211
IsSingleExport(exportDeclarations) ==
  Cardinality(Range(Flat(exportDeclarations))) = 1

\* Lines 209-213: the declarations the forEach of the file goes through
DeclarationsToVisit(exportDeclarations) ==
  IF SymbolsRequested /\ ~IsSingleExport(exportDeclarations)
    THEN Flat(exportDeclarations)
    ELSE << >>

\* What the forEach of a file does after lines 190-207
FileOutcome(exportDeclarations) ==
  IF ~SymbolsRequested THEN "notRequested"
  ELSE IF IsSingleExport(exportDeclarations) THEN "singleExport"
  ELSE IF exportDeclarations = << >> THEN "noExports"
  ELSE "declarations"

\* Lines 284-293
Finish(s, show, unusedDependencies, unusedDevDependencies) ==
  LET deps == IF configuration.report.dependencies
                THEN AddProjectIssues(s, show, "dependencies", unusedDependencies)
                ELSE s
      dev == IF configuration.report.dependencies /\ configuration.isDev
               THEN AddProjectIssues(deps, show, "devDependencies", unusedDevDependencies)
               ELSE deps
  IN IF show THEN [dev EXCEPT !.lines = << >>] ELSE dev

(***************************************************************************)
(* The initial state: findIssues is called with a configuration.           *)
(***************************************************************************)
Reports ==
  [files : BOOLEAN, dependencies : BOOLEAN, unlisted : BOOLEAN, exports : BOOLEAN,
   types : BOOLEAN, nsExports : BOOLEAN, nsTypes : BOOLEAN, duplicates : BOOLEAN]

Configurations ==
  [cwd : {WorkingDir}, workingDir : {WorkingDir}, isShowProgress : BOOLEAN, report : Reports,
   isDev : BOOLEAN, jsDocOptions : [isReadPublicTag : BOOLEAN],
   entryFiles : FileLists, productionFiles : FileLists, projectFiles : FileLists]

Analyzers == [unresolved : [AllFiles -> UnresolvedLists]]

(***************************************************************************)
(* The inputs the runs are checked on: a base input, and the inputs that   *)
(* differ from it in one group of fields.                                  *)
(***************************************************************************)
BaseReport ==
  [files |-> TRUE, dependencies |-> FALSE, unlisted |-> TRUE, exports |-> FALSE,
   types |-> FALSE, nsExports |-> FALSE, nsTypes |-> FALSE, duplicates |-> TRUE]

BaseConfiguration ==
  [cwd |-> WorkingDir, workingDir |-> WorkingDir, isShowProgress |-> TRUE,
   report |-> BaseReport, isDev |-> FALSE, jsDocOptions |-> [isReadPublicTag |-> FALSE],
   entryFiles |-> <<FilePath(1), FilePath(2)>>, productionFiles |-> <<FilePath(1)>>,
   projectFiles |-> <<FilePath(1)>>]

BaseAnalyzer == [unresolved |-> [f \in AllFiles |-> <<"p">>]]

\* Every choice of the four symbol categories
SymbolInputs ==
  { << [BaseConfiguration EXCEPT
          !.report = [BaseReport EXCEPT !.exports = e, !.types = t,
                                        !.nsExports = ne, !.nsTypes = nt]],
       BaseAnalyzer >> :
      e \in BOOLEAN, t \in BOOLEAN, ne \in BOOLEAN, nt \in BOOLEAN }

\* The jsdoc option on, with every choice of exports and types
PublicTagInputs ==
  { << [BaseConfiguration EXCEPT
          !.report = [BaseReport EXCEPT !.exports = e, !.types = t],
          !.jsDocOptions = [isReadPublicTag |-> TRUE]],
       BaseAnalyzer >> :
      e \in BOOLEAN, t \in BOOLEAN }

\* Every choice of the three file lists
FileInputs ==
  { << [BaseConfiguration EXCEPT !.entryFiles = entry, !.productionFiles = production,
                                 !.projectFiles = project,
                                 !.report = [BaseReport EXCEPT !.duplicates = d, !.unlisted = u]],
       BaseAnalyzer >> :
      entry \in FileLists, production \in FileLists, project \in FileLists,
      d \in BOOLEAN, u \in BOOLEAN }

\* Every choice of the dependency categories and of what the analyzer answers
DependencyInputs ==
  { << [BaseConfiguration EXCEPT
          !.report = [BaseReport EXCEPT !.dependencies = d, !.unlisted = u],
          !.isDev = dev],
       a >> :
      d \in BOOLEAN, u \in BOOLEAN, dev \in BOOLEAN, a \in Analyzers }

\* Every choice of the progress display
ProgressInputs ==
  { << [BaseConfiguration EXCEPT
          !.isShowProgress = show,
          !.report = [BaseReport EXCEPT !.files = f, !.exports = e, !.types = e,
                                        !.dependencies = e]],
       BaseAnalyzer >> :
      show \in BOOLEAN, f \in BOOLEAN, e \in BOOLEAN }

Inputs ==
  SymbolInputs \cup PublicTagInputs \cup FileInputs \cup DependencyInputs \cup ProgressInputs

NoSourceFile == [filePath |-> << >>, exportDeclarations |-> << >>, namespaceNodes |-> -1]
NoDeclaration == [type |-> Undefined, public |-> FALSE, identifier |-> Undefined, refs |-> << >>]

\* What a step did: the file it was about, what the source model answered
\* and what came of it.
Step(op, filePath, outcome) ==
  [op |-> op, filePath |-> filePath, outcome |-> outcome, exportDeclarations |-> << >>,
   declaration |-> NoDeclaration, namespaceNodes |-> -1]

NoStep == Step("none", << >>, "none")

InitWith(inputs) ==
  /\ \E input \in inputs : configuration = input[1] /\ analyzer = input[2]
  /\ pc = "idle"
  /\ usedProductionFiles = << >>
  /\ unreferencedProductionFiles = << >>
  /\ usedEntryFiles = << >>
  /\ usedNonEntryFiles = << >>
  /\ issues = InitialIssues(<< >>)
  /\ counters = InitialCounters(InitialIssues(<< >>))
  /\ lines = << >>
  /\ twin = [issues |-> InitialIssues(<< >>), counters |-> InitialCounters(InitialIssues(<< >>)),
             lines |-> << >>]
  /\ fileIdx = 1
  /\ sourceFile = NoSourceFile
  /\ declIdx = 1
  /\ nodes = << >>
  /\ last = NoStep

(***************************************************************************)
(* The actions.                                                            *)
(***************************************************************************)
SetResults(s, t) ==
  /\ issues' = s.issues
  /\ counters' = s.counters
  /\ lines' = s.lines
  /\ twin' = t

PhaseAfterCollecting(nonEntry) ==
  IF TraversalRequested /\ nonEntry # << >> THEN "classifying" ELSE "finalizing"

\* Lines 168-171 without the test of the report
PhaseAfterIdleCollecting(entry, nonEntry) ==
  IF entry # << >> THEN "collecting" ELSE PhaseAfterCollecting(nonEntry)

PhaseAfterIdle(entry, nonEntry) ==
  IF DependenciesRequested /\ entry # << >> THEN "collecting" ELSE PhaseAfterCollecting(nonEntry)

\* Lines 92-128
Start ==
  /\ pc = "idle"
  /\ LET first == FirstPartition(configuration.projectFiles, configuration.productionFiles)
         second == SecondPartition(first[1], configuration.entryFiles)
         store == InitialIssues(first[2])
         s == [issues |-> store, counters |-> InitialCounters(store), lines |-> << >>]
     IN /\ usedProductionFiles' = first[1]
        /\ unreferencedProductionFiles' = first[2]
        /\ usedEntryFiles' = second[1]
        /\ usedNonEntryFiles' = second[2]
        /\ SetResults(s, s)
        /\ pc' = PhaseAfterIdle(second[1], second[2])
  /\ last' = Step("start", << >>, "started")
  /\ UNCHANGED <<configuration, analyzer, fileIdx, sourceFile, declIdx, nodes>>

\* Lines 171-175, one turn of the forEach
CollectEntryFile ==
  /\ pc = "collecting"
  /\ LET filePath == usedEntryFiles[fileIdx]
     IN /\ SetResults(CollectFile(Results, configuration.isShowProgress, filePath),
                      CollectFile(twin, ~configuration.isShowProgress, filePath))
        /\ last' = Step("collect", filePath, "collected")
  /\ IF fileIdx < Len(usedEntryFiles)
       THEN fileIdx' = fileIdx + 1 /\ pc' = pc
       ELSE fileIdx' = 1 /\ pc' = PhaseAfterCollecting(usedNonEntryFiles)
  /\ UNCHANGED <<configuration, analyzer, usedProductionFiles, unreferencedProductionFiles,
                 usedEntryFiles, usedNonEntryFiles, sourceFile, declIdx, nodes>>

\* The forEach over usedNonEntryFiles, followed by the pass over the entry files.
NextFileThenCollect ==
  /\ sourceFile' = NoSourceFile
  /\ declIdx' = 1
  /\ nodes' = << >>
  /\ IF fileIdx < Len(usedNonEntryFiles)
       THEN fileIdx' = fileIdx + 1 /\ pc' = pc
       ELSE /\ fileIdx' = 1
            /\ pc' = IF DependenciesRequested /\ usedEntryFiles # << >>
                       THEN "collecting" ELSE "finalizing"

\* The forEach over usedNonEntryFiles goes on to its next file, or ends.
NextFile ==
  /\ sourceFile' = NoSourceFile
  /\ declIdx' = 1
  /\ nodes' = << >>
  /\ IF fileIdx < Len(usedNonEntryFiles)
       THEN fileIdx' = fileIdx + 1 /\ pc' = pc
       ELSE fileIdx' = 1 /\ pc' = "finalizing"

\* Lines 189-211, one turn of the forEach up to the declarations
VisitFile ==
  /\ pc = "classifying"
  /\ sourceFile = NoSourceFile
  /\ \E exportDeclarations \in ExportMaps :
       LET filePath == usedNonEntryFiles[fileIdx]
       IN /\ SetResults(
               OpenFile(Results, configuration.isShowProgress, filePath, exportDeclarations),
               OpenFile(twin, ~configuration.isShowProgress, filePath, exportDeclarations))
          /\ last' = [Step("file", filePath, FileOutcome(exportDeclarations))
                        EXCEPT !.exportDeclarations = exportDeclarations]
          /\ IF DeclarationsToVisit(exportDeclarations) = << >>
               THEN NextFile
               ELSE /\ sourceFile' = [filePath |-> filePath,
                                      exportDeclarations |-> exportDeclarations,
                                      namespaceNodes |-> -1]
                    /\ declIdx' = 1
                    /\ nodes' = << >>
                    /\ fileIdx' = fileIdx
                    /\ pc' = pc
  /\ UNCHANGED <<configuration, analyzer, usedProductionFiles, unreferencedProductionFiles,
                 usedEntryFiles, usedNonEntryFiles>>

\* What the code never reads of a declaration is left at a fixed value; the
\* type, of which lines 217-275 test the truthiness, is kept as it is only
\* where it is stored as the symbolType of an issue.
AsRead(declaration, outcome) ==
  /\ (~configuration.jsDocOptions.isReadPublicTag \/ outcome = "filtered")
       => declaration.public = FALSE
  /\ outcome \in {"filtered", "public"} => declaration.identifier = Undefined
  /\ outcome \in {"filtered", "public", "threw", "noIdentifier", "known"}
       => declaration.refs = << >>
  /\ outcome \notin {"types", "nsTypes"} => declaration.type \in {Undefined, "type"}

ReadsNamespaceNodes(outcome) == outcome \in {"exports", "types", "nsExports", "nsTypes"}

\* Lines 214-277, one turn of the forEach over the declarations
VisitDeclaration ==
  /\ pc = "classifying"
  /\ sourceFile # NoSourceFile
  /\ LET filePath == sourceFile.filePath
         list == DeclarationsToVisit(sourceFile.exportDeclarations)
         node == list[declIdx]
         later == {list[i] : i \in (declIdx + 1)..Len(list)}
     IN \E declaration \in (IF node \in DOMAIN nodes THEN {nodes[node]}
                            ELSE Declarations(filePath)),
           namespaceNodes \in (IF sourceFile.namespaceNodes = -1 THEN {0, 1}
                               ELSE {sourceFile.namespaceNodes}) :
          LET outcome == Outcome(Results, filePath, namespaceNodes, declaration)
              known == IF ReadsNamespaceNodes(outcome) THEN namespaceNodes
                       ELSE sourceFile.namespaceNodes
              seen == [n \in ((DOMAIN nodes) \cup {node}) \cap later |->
                         IF n = node THEN declaration ELSE nodes[n]]
          IN /\ node \notin DOMAIN nodes => AsRead(declaration, outcome)
             /\ ~ReadsNamespaceNodes(outcome) =>
                  namespaceNodes = (IF sourceFile.namespaceNodes = -1 THEN 0
                                    ELSE sourceFile.namespaceNodes)
             /\ SetResults(
                  ClassifyDeclaration(Results, configuration.isShowProgress, filePath,
                                      namespaceNodes, declaration),
                  ClassifyDeclaration(twin, ~configuration.isShowProgress, filePath,
                                      namespaceNodes, declaration))
             /\ last' = [Step("declaration", filePath, outcome)
                           EXCEPT !.declaration = declaration, !.namespaceNodes = known]
             /\ IF outcome = "threw"
                  THEN /\ pc' = "threw"
                       /\ UNCHANGED <<sourceFile, declIdx, nodes, fileIdx>>
                ELSE IF declIdx < Len(list)
                  THEN /\ sourceFile' = [sourceFile EXCEPT !.namespaceNodes = known]
                       /\ declIdx' = declIdx + 1
                       /\ nodes' = seen
                       /\ fileIdx' = fileIdx
                       /\ pc' = pc
                ELSE NextFile
  /\ UNCHANGED <<configuration, analyzer, usedProductionFiles, unreferencedProductionFiles,
                 usedEntryFiles, usedNonEntryFiles>>

\* Lines 284-295
Finalize ==
  /\ pc = "finalizing"
  /\ \E unusedDependencies \in DependencyLists, unusedDevDependencies \in DependencyLists :
       /\ ~configuration.report.dependencies => unusedDependencies = << >>
       /\ ~(configuration.report.dependencies /\ configuration.isDev)
            => unusedDevDependencies = << >>
       /\ SetResults(
            Finish(Results, configuration.isShowProgress, unusedDependencies,
                   unusedDevDependencies),
            Finish(twin, ~configuration.isShowProgress, unusedDependencies,
                   unusedDevDependencies))
       /\ last' = Step("finish", << >>, "finished")
  /\ pc' = "done"
  /\ UNCHANGED <<configuration, analyzer, usedProductionFiles, unreferencedProductionFiles,
                 usedEntryFiles, usedNonEntryFiles, fileIdx, sourceFile, declIdx, nodes>>

Next ==
  \/ Start
  \/ CollectEntryFile
  \/ VisitFile
  \/ VisitDeclaration
  \/ Finalize

Init == InitWith(Inputs)

Spec == Init /\ [][Next]_vars

(***************************************************************************)
(* Properties.                                                             *)
(***************************************************************************)
ExportIssueTypes == {"exports", "types", "nsExports", "nsTypes"}

\* The key addSymbolIssue stores the issues of a file under.
Key(filePath) == Relative(configuration.workingDir, filePath)

\* The step was the classification of a declaration that went as far as
\* the lookup of its references.
Resolved(step) ==
  /\ step.op = "declaration"
  /\ step.outcome \notin {"filtered", "public", "threw", "noIdentifier", "known"}

\* C1. Counter law: in every state of a run each category's counter is the
\* number of entries of its store: of distinct (file, symbol) pairs for a
\* symbol-issue category, of members for files, dependencies and
\* devDependencies.
C1_CounterLaw ==
  /\ \A t \in SymbolIssueTypes : counters[t] = Cardinality(Entries(issues[t]))
  /\ \A t \in ProjectIssueTypes \cup {"files"} : counters[t] = Cardinality(issues[t])

\* C2. No (file, identifier) pair is recorded in more than one of exports,
\* types, nsExports and nsTypes.
C2_NoDoubleCount ==
  \A t1 \in ExportIssueTypes, t2 \in ExportIssueTypes :
    t1 # t2 => Entries(issues[t1]) \cap Entries(issues[t2]) = {}

\* The file exports exactly one declaration, under one or more names.
ExportsOneSymbol(exportDeclarations) ==
  /\ exportDeclarations # << >>
  /\ \A i \in 1..Len(exportDeclarations), j \in 1..Len(exportDeclarations) :
       /\ Len(exportDeclarations[i].declarations) = 1
       /\ exportDeclarations[i].declarations = exportDeclarations[j].declarations

C4_ZeroReferences ==
  (Resolved(last) /\ Len(last.declaration.refs) = 0) =>
    IF last.declaration.type # Undefined
      THEN HasIssue(issues.types, Key(last.filePath), last.declaration.identifier)
      ELSE HasIssue(issues.exports, Key(last.filePath), last.declaration.identifier)

\* C5. A declaration referenced only within its declaring file, whose file
\* is the target of a namespace access, comes out as nsTypes if it is a type
\* and as nsExports if it is a value (so not as exports or types), and is
\* recorded in that category.
C5_NamespaceTarget ==
  ( /\ last.op = "declaration"
    /\ RefFiles(last.declaration.refs) = {last.filePath}
    /\ last.namespaceNodes > 0 ) =>
    LET t == IF last.declaration.type # Undefined THEN "nsTypes" ELSE "nsExports"
    IN /\ last.outcome = t
       /\ HasIssue(issues[t], Key(last.filePath), last.declaration.identifier)

C5_Witness ==
  /\ last.op = "declaration"
  /\ RefFiles(last.declaration.refs) = {last.filePath}
  /\ last.namespaceNodes > 0
  /\ last.declaration.type # Undefined
  /\ HasIssue(issues.nsTypes, Key(last.filePath), last.declaration.identifier)
  /\ ~configuration.report.nsTypes

ReferencedElsewhere(step) ==
  \E f \in RefFiles(step.declaration.refs) : f # step.filePath

\* C6. The classification of a declaration that has a reference in a file
\* other than its own changes no store and no counter of exports, types,
\* nsExports and nsTypes; the classification of a value without references
\* leaves an exports entry for it under its file.
C6_UsedElsewhere ==
  [][ /\ (last'.op = "declaration" /\ ReferencedElsewhere(last')) =>
           \A t \in ExportIssueTypes :
             issues'[t] = issues[t] /\ counters'[t] = counters[t]
      /\ ( /\ Resolved(last')
           /\ Len(last'.declaration.refs) = 0
           /\ last'.declaration.type = Undefined ) =>
           HasIssue(issues'.exports, Key(last'.filePath), last'.declaration.identifier)
    ]_vars

\* A file exports foo, without references, and bar, referenced by another file.
C6_Witness ==
  /\ last.op = "declaration"
  /\ last.declaration.identifier = "bar"
  /\ ReferencedElsewhere(last)
  /\ HasIssue(issues.exports, Key(last.filePath), "foo")
  /\ ~HasIssue(issues.exports, Key(last.filePath), "bar")
  /\ counters.exports = 1

\* C7. The files the classifier and the duplicate detector traverse are the
\* used production files that are not entry files.
C7_EntryFilesExempt ==
  pc # "idle" =>
    usedNonEntryFiles =
      SelectSeq(usedProductionFiles, LAMBDA f : f \notin Range(configuration.entryFiles))

\* C8. Every production file is in exactly one of the files issues and the
\* used production files, and counters.files is the number of production
\* files that are not project files.
C8_FirstPartition ==
  pc # "idle" =>
    /\ \A f \in Range(configuration.productionFiles) :
         (f \in issues.files) # (f \in Range(usedProductionFiles))
    /\ counters.files =
         Cardinality({f \in Range(configuration.productionFiles) :
                        f \notin Range(configuration.projectFiles)})

C8_Witness ==
  /\ pc = "done"
  /\ issues.files # {}
  /\ usedProductionFiles # << >>

RECURSIVE SinglePass(_, _)
\* unresolvedDependencies called once over each file of a list
SinglePass(s, files) ==
  IF files = << >> THEN s
  ELSE SinglePass(AddSymbolIssues(s, FALSE, "unresolved", GetUnresolvedDependencies(Head(files))),
                  Tail(files))

\* C9. When a dependency category is requested, a finished run has the
\* unresolved store of one pass over the used production files.
C9_TwoPhases ==
  (pc = "done" /\ DependenciesRequested) =>
    issues.unresolved =
      SinglePass([issues |-> InitialIssues(<< >>), counters |-> InitialCounters(InitialIssues(<< >>)),
                  lines |-> << >>],
                 usedProductionFiles).issues.unresolved

\* C10. The run with the progress display and the run without it have the
\* same issue stores and the same counters, in every state.
C10_Observational ==
  /\ twin.issues = issues
  /\ twin.counters = counters

C10_Witness ==
  /\ pc = "done"
  /\ configuration.isShowProgress
  /\ counters.unresolved > 0
  /\ counters.exports > 0

\* The place of a phase in the order of the passes of findIssues; a run that
\* threw has ended.
PhaseRank(p) ==
  CASE p = "idle" -> 0
    [] p = "collecting" -> 1
    [] p = "classifying" -> 2
    [] p = "finalizing" -> 3
    [] OTHER -> 4

\* C11. The phases follow each other in the order idle, collecting,
\* classifying, finalizing, done and none is entered again: an entry file is
\* collected only in the collecting phase and a file is traversed only in the
\* classifying phase, so the unresolved issues of the entry files are all
\* there before the first traversed file and do not change afterwards; the
\* dependencies and devDependencies change only in the one step from
\* finalizing to done, after the last traversed file.
C11_Sequential ==
  [][ /\ PhaseRank(pc') >= PhaseRank(pc)
      /\ last'.op = "collect" => pc = "collecting"
      /\ last'.op \in {"file", "declaration"} => pc = "classifying"
      /\ ( \/ last'.op = "finish"
           \/ issues'.dependencies # issues.dependencies
           \/ issues'.devDependencies # issues.devDependencies
           \/ counters'.dependencies # counters.dependencies
           \/ counters'.devDependencies # counters.devDependencies )
           => (pc = "finalizing" /\ pc' = "done")
      /\ PhaseRank(pc) >= 2 =>
           \A f \in Range(usedEntryFiles) :
             /\ (Key(f) \in DOMAIN issues'.unresolved) = (Key(f) \in DOMAIN issues.unresolved)
             /\ Key(f) \in DOMAIN issues.unresolved =>
                  issues'.unresolved[Key(f)] = issues.unresolved[Key(f)]
    ]_vars

\* A run that went through every phase.
C11_Witness ==
  /\ pc = "done"
  /\ \E f \in Range(usedEntryFiles) : Key(f) \in DOMAIN issues.unresolved
  /\ \E f \in Range(usedNonEntryFiles) : Key(f) \in DOMAIN issues.unresolved
  /\ issues.dependencies # {}
  /\ issues.devDependencies # {}

\* C12. When neither dependencies nor unlisted is requested, no entry file
\* is collected, no unresolved dependency of any file is recorded whatever
\* the analyzer would answer, and unresolved, dependencies and
\* devDependencies stay empty with counters 0; when none of exports, types,
\* nsExports and nsTypes is requested, no declaration is classified and the
\* four categories stay empty with counters 0.
C12_DisabledSkipped ==
  /\ (~configuration.report.dependencies /\ ~configuration.report.unlisted) =>
       /\ pc # "collecting"
       /\ last.op # "collect"
       /\ issues.unresolved = EmptyObject
       /\ issues.dependencies = {}
       /\ issues.devDependencies = {}
       /\ counters.unresolved = 0
       /\ counters.dependencies = 0
       /\ counters.devDependencies = 0
  /\ ( /\ ~configuration.report.exports /\ ~configuration.report.types
       /\ ~configuration.report.nsExports /\ ~configuration.report.nsTypes ) =>
       /\ last.op # "declaration"
       /\ sourceFile = NoSourceFile
       /\ \A t \in ExportIssueTypes : issues[t] = EmptyObject /\ counters[t] = 0

\* A file with two exported declarations and an unresolved import was
\* traversed, after the entry files were passed over, with neither group of
\* categories requested.
C12_Witness ==
  /\ ~configuration.report.dependencies /\ ~configuration.report.unlisted
  /\ ~configuration.report.exports /\ ~configuration.report.types
  /\ ~configuration.report.nsExports /\ ~configuration.report.nsTypes
  /\ last.op = "file"
  /\ usedEntryFiles # << >>
  /\ \A f \in Range(usedEntryFiles) : analyzer.unresolved[f] # << >>
  /\ analyzer.unresolved[last.filePath] # << >>
  /\ Cardinality(Range(Flat(last.exportDeclarations))) = 2

\* The export names in alphabetical order, and a group of names sorted.
SortedNames == <<"bar", "baz", "foo", "quux", "qux">>

Sort(symbols) == SelectSeq(SortedNames, LAMBDA n : n \in Range(symbols))

\* C13. When duplicates are requested, a traversed file has one duplicates
\* issue per group of two or more export names bound to the same declaration
\* and no other: the issue is keyed by the names of the group sorted and
\* joined with '|' and keeps the names of the group; so also for a file the
\* single-export early exit skips.
C13_Duplicates ==
  (last.op = "file" /\ configuration.report.duplicates) =>
    LET groups == FindDuplicateExportedNames(last.exportDeclarations)
        key == Key(last.filePath)
    IN /\ \A i \in 1..Len(groups) :
            /\ HasIssue(issues.duplicates, key, Join(Sort(groups[i]), "|"))
            /\ Range(issues.duplicates[key][Join(Sort(groups[i]), "|")].symbols)
                 = Range(groups[i])
       /\ groups # << >> => Cardinality(DOMAIN issues.duplicates[key]) = Len(groups)
       /\ groups = << >> => key \notin DOMAIN issues.duplicates

\* C14. The classification of a declaration whose identifier has no
\* references records it under exports or types and leaves nsExports and
\* nsTypes, stores and counters, as they were, also when the file is known
\* to be the target of a namespace access.
C14_ZeroNeverNamespace ==
  [][ (Resolved(last') /\ Len(last'.declaration.refs) = 0) =>
        /\ last'.outcome = "noReferences"
        /\ issues'.nsExports = issues.nsExports
        /\ issues'.nsTypes = issues.nsTypes
        /\ counters'.nsExports = counters.nsExports
        /\ counters'.nsTypes = counters.nsTypes
        /\ \/ HasIssue(issues'.exports, Key(last'.filePath), last'.declaration.identifier)
           \/ HasIssue(issues'.types, Key(last'.filePath), last'.declaration.identifier)
    ]_vars

\* In a file found to be a namespace target by an earlier declaration, a
\* declaration without references was classified.
C14_Witness ==
  /\ Resolved(last)
  /\ Len(last.declaration.refs) = 0
  /\ last.namespaceNodes > 0
  /\ Key(last.filePath) \in DOMAIN issues.nsExports
  /\ HasIssue(issues.exports, Key(last.filePath), last.declaration.identifier)
  /\ ~HasIssue(issues.nsExports, Key(last.filePath), last.declaration.identifier)

\* The symbols the dependency analyzer can name.
ProjectSymbols == UNION {Range(list) : list \in DependencyLists}

\* C15. addProjectIssue is idempotent per symbol: in every state of a run,
\* for dependencies and devDependencies, the counter is the number of
\* distinct symbols added, and one more call of addProjectIssue leaves the
\* set and the counter as they are if the symbol is in the set, and adds the
\* symbol and one to the counter if it is not.
C15_ProjectIdempotent ==
  \A t \in ProjectIssueTypes :
    /\ counters[t] = Cardinality(issues[t])
    /\ \A symbol \in ProjectSymbols :
         LET r == AddProjectIssue(Results, configuration.isShowProgress, t,
                                  [filePath |-> << >>, symbol |-> symbol])
         IN IF symbol \in issues[t]
              THEN r.issues[t] = issues[t] /\ r.counters[t] = counters[t]
              ELSE r.issues[t] = issues[t] \cup {symbol} /\ r.counters[t] = counters[t] + 1

\* The analyzer named lodash twice as an unused dependency, and two
\* different unused devDependencies.
C15_Witness ==
  /\ pc = "done"
  /\ issues.dependencies = {"lodash"}
  /\ counters.dependencies = 1
  /\ issues.devDependencies = {"lodash", "react"}
  /\ counters.devDependencies = 2

\* C16. The classification of a declaration from which no identifier can be
\* extracted, whatever its kind, does not throw: the declaration is skipped,
\* the stores and the counters stay as they were, and the run goes on.
C16_NoThrow ==
  [][ (last'.op = "declaration" /\ last'.outcome \in {"noIdentifier", "threw"}) =>
        /\ last'.outcome = "noIdentifier"
        /\ pc' # "threw"
        /\ issues' = issues
        /\ counters' = counters
    ]_vars

\* C17. Once addSymbolIssue has recorded an identifier of a file under a
\* requested category among exports, types, nsExports and nsTypes, the
\* classification of a later declaration of the file with the same
\* identifier is cut short: its references are not looked up and the stores
\* and the counters stay as they were.
C17_ShortCircuit ==
  [][ ( /\ last'.op = "declaration"
        /\ last'.outcome \notin {"filtered", "public", "threw", "noIdentifier"}
        /\ IsKnownIssue(issues, configuration.report, Key(last'.filePath),
                        last'.declaration.identifier) ) =>
        /\ last'.outcome = "known"
        /\ issues' = issues
        /\ counters' = counters
    ]_vars

\* C18. No step of a run removes an entry from a category of the store, and
\* none replaces the issue recorded under a (category, file, symbol) by
\* another one.
C18_WriteOnce ==
  [][ /\ \A t \in SymbolIssueTypes :
           \A k \in DOMAIN issues[t] :
             /\ k \in DOMAIN issues'[t]
             /\ \A symbol \in DOMAIN issues[t][k] :
                  /\ symbol \in DOMAIN issues'[t][k]
                  /\ issues'[t][k][symbol] = issues[t][k][symbol]
      /\ \A t \in ProjectIssueTypes \cup {"files"} : issues[t] \subseteq issues'[t]
    ]_vars

====
